---- MODULE Spec2Model ----
(***************************************************************************)
(* Hardware-synchronous control dialogs of SBEMimage                       *)
(* (src/src/main_controls_dlg_windows.py): ApproachDlg, MotorTestDlg and   *)
(* StageCalibrationDlg.  Each dialog runs its handlers on the presentation *)
(* thread and starts one worker thread (threading.Thread) that drives the  *)
(* hardware and posts zero-payload Qt signals back to the presentation     *)
(* thread.  Worker code is modelled statement by statement wherever it     *)
(* shares attributes with the handlers; a handler is one atomic action.    *)
(* Lengths are kept in nanometres (the code adds thickness/1000 to a Z     *)
(* given in micrometres).                                                  *)
(***************************************************************************)
EXTENDS Integers, Sequences, FiniteSets, TLC

\* ---------------------------------------------------------------- bounds
\* spinBox_numberSlices has the range 1..100; the model explores 1..MaxSlices.
MaxSlices == 2

\* random_walk_thread iterates until the time is up; the model lets it start
\* at most MaxTests iterations in one run.
MaxTests == 2

\* --------------------------------------------------------- program constants
\* error code that the approach dialog reads as a Z position mismatch
ErrZMismatch == 206
\* any other non-zero code of the error register
ErrOther == 1
\* spinBox_numberSlices.setValue(5)
DefaultSlices == 5

\* random_walk_thread: lengths in units of 0.001 (micrometres)
\* abs(current_x) > 600 or abs(current_y) > 600 or current_z > 600
WalkLimit == 600000
\* dist = 300, every 10th cycle
LongDist == 300
\* dist = 50
ShortDist == 50
\* current_z += (random() - 0.5) * 0.2
ZSpread == 200
\* current_z += 0.025
ZStep == 25

\* outcomes a hardware call can leave in the error register (0: no fault)
HwOutcomes == {0, ErrZMismatch, ErrOther}
\* values get_stage_z can return: None (the empty tuple), a negative reading,
\* or a valid Z (nm)
NoneZ == <<>>
ZReads == {NoneZ, <<-1000>>, <<3000>>}
\* cutting thickness (nm) offered by spinBox_thickness
Thicknesses == {50, 100}
\* the thickness a dialog that was not edited shows
DefaultThickness == 50
\* max_wait_time = 15 (seconds) of the EHT worker
MaxWaitTime == 15

VARIABLES
  dlg,                  \* the modal dialog on screen: "none", "approach", "motor", "calib", "eht"
  queue,                \* signals posted to the presentation thread, in emission order
  error_state,          \* microtome.error_state, the process-wide error register
  \* ---- ApproachDlg attributes
  slice_counter, approach_in_progress, aborted, z_mismatch, max_slices, thickness,
  spinBox_numberSlices, spinBox_thickness,
  aw,                   \* enabled state of the approach dialog's widgets, progress bar
  a_pc,                 \* position of approach_thread ("none": no thread alive)
  z_position,           \* approach_thread's local z_position (nm) or NoneZ
  a_report,             \* what finish_approach last showed to the operator
  ah,                   \* observation of the current approach run (commands issued)
  \* ---- MotorTestDlg attributes (aborted is m_aborted here)
  test_in_progress, m_aborted, start_time, start_z, number_tests, number_errors,
  mw,                   \* enabled state of the motor test dialog's widgets, progress bar
  m_pc,                 \* position of random_walk_thread ("none": no thread alive)
  m_log,                \* lines written to motor_test_log.txt in this run
  m_report,             \* what test_finished last showed to the operator
  mh,                   \* observation of the current motor test run
  current_x, current_y, current_z,  \* random_walk_thread's locals (0.001 units)
  \* ---- StageCalibrationDlg attributes and its collaborators
  busy, calc_exception, x_shift_vector, y_shift_vector,
  spin_pts,             \* spinBox_x1x .. spinBox_y2y, the pixel positions on the form
  spin_cal,             \* spinBox_shift and spinBox_pixelsize
  params,               \* the four doubleSpinBox_stage* values of the dialog
  stage_calibration,    \* cs.stage_calibration, the persisted calibration
  cw,                   \* enabled state and text of the calibration dialog's widgets
  c_pc,                 \* position of stage_calibration_acq_thread
  c_start,              \* the worker's local start_x, start_y
  stage_xy,             \* the stage position (stage.get_xy)
  images_ok,            \* every image of the current run was written so far
  ch,                   \* observation of the current calibration run
  \* ---- EHTDlg
  ew,                   \* the EHT dialog's buttons (enabled, text) and status label
  e_pc,                 \* position of send_on_cmd_and_wait / send_off_cmd_and_wait
  e_wait                \* the worker's local max_wait_time

apprVars == <<slice_counter, approach_in_progress, aborted, z_mismatch, max_slices,
              thickness, spinBox_numberSlices, spinBox_thickness, aw, a_pc,
              z_position, a_report, ah>>
walkVars == <<current_x, current_y, current_z>>
motorVars == <<test_in_progress, m_aborted, start_time, start_z, number_tests,
               number_errors, mw, m_pc, m_log, m_report, mh, walkVars>>
calVars == <<busy, calc_exception, x_shift_vector, y_shift_vector, spin_pts, spin_cal,
             params, stage_calibration, cw, c_pc, c_start, stage_xy, images_ok, ch>>
ehtVars == <<ew, e_pc, e_wait>>
vars == <<dlg, queue, error_state, apprVars, motorVars, calVars, ehtVars>>

\* The register after a hardware call with outcome e: a fault overwrites it,
\* a fault-free call leaves it as it was (the fault sticks until it is reset).
HwCall(e) == IF e = 0 THEN error_state ELSE e

\* z_position is None or z_position < 0
ZFailed(z) == z = NoneZ \/ z[1] < 0

Min(a, b) == IF a < b THEN a ELSE b

\* abs()
Abs(v) == IF v < 0 THEN -v ELSE v

\* Trigger.s.emit() from a worker: a queued, payload-free signal
Emit(sig) == queue' = Append(queue, sig)

\* ------------------------------------------------------------ ApproachDlg
NoReport == [kind |-> "none", slices |-> 0, depth |-> 0, clear_warning |-> FALSE]

AhInit == [moves |-> 0, cuts |-> 0, ok_cuts |-> 0, nears |-> 0, clears |-> 0,
           finishes |-> 0, handled |-> 0, read_ok |-> FALSE, hw_fault |-> FALSE,
           fault_seen |-> FALSE, cmd_after_fault |-> FALSE, fault206_cycle |-> 0,
           abort_req |-> FALSE, abort_pc |-> "none", abort_cycle |-> 0,
           cycle_after_abort |-> FALSE, clear_fault |-> FALSE,
           target |-> 0, z0 |-> <<>>, near_fault |-> FALSE]

\* int(self.slice_counter/self.max_slices * 100)
ProgressValue(sc, ms) == (sc * 100) \div ms

\* ApproachDlg.__init__: the attributes and widgets of a fresh dialog
ApproachFresh ==
  /\ slice_counter' = 0
  /\ approach_in_progress' = FALSE
  /\ aborted' = FALSE
  /\ z_mismatch' = FALSE
  /\ spinBox_numberSlices' = Min(DefaultSlices, MaxSlices)
  /\ max_slices' = Min(DefaultSlices, MaxSlices)
  /\ thickness' = 0
  /\ aw' = [start |-> TRUE, abort |-> FALSE, buttonBox |-> TRUE, spins |-> TRUE,
            progressBar |-> 0]
  /\ a_pc' = "none"
  /\ z_position' = NoneZ
  /\ a_report' = NoReport
  /\ ah' = AhInit

ApproachInit ==
  /\ slice_counter = 0
  /\ approach_in_progress = FALSE
  /\ aborted = FALSE
  /\ z_mismatch = FALSE
  /\ spinBox_numberSlices = Min(DefaultSlices, MaxSlices)
  /\ max_slices = Min(DefaultSlices, MaxSlices)
  /\ thickness = 0
  /\ spinBox_thickness = DefaultThickness
  /\ aw = [start |-> TRUE, abort |-> FALSE, buttonBox |-> TRUE, spins |-> TRUE,
           progressBar |-> 0]
  /\ a_pc = "none"
  /\ z_position = NoneZ
  /\ a_report = NoReport
  /\ ah = AhInit

\* ----------------------------------------------------------- MotorTestDlg
MhInit == [xy_moves |-> 0, z_moves |-> 0, restores |-> 0, finishes |-> 0,
           handled |-> 0, accept_raised |-> FALSE, abort_req |-> FALSE,
           timed_out |-> FALSE, iter_after_abort |-> FALSE,
           iter_after_timeout |-> FALSE, sent_xy |-> <<>>, sent_z |-> <<>>,
           restore_z |-> <<>>, restore_safe_mode |-> TRUE]

NoMotorReport == [kind |-> "none", restore_warning |-> FALSE, tests |-> 0, errors |-> 0]

\* MotorTestDlg.__init__
MotorFresh ==
  /\ test_in_progress' = FALSE
  /\ m_aborted' = FALSE
  /\ start_time' = "None"
  /\ start_z' = NoneZ
  /\ number_tests' = 0
  /\ number_errors' = 0
  /\ mw' = [start |-> TRUE, abort |-> FALSE, buttonBox |-> TRUE, duration |-> TRUE,
            progressBar |-> 0]
  /\ m_pc' = "none"
  /\ m_log' = <<>>
  /\ m_report' = NoMotorReport
  /\ mh' = MhInit
  /\ current_x' = 0
  /\ current_y' = 0
  /\ current_z' = 0

MotorInit ==
  /\ test_in_progress = FALSE
  /\ m_aborted = FALSE
  /\ start_time = "None"
  /\ start_z = NoneZ
  /\ number_tests = 0
  /\ number_errors = 0
  /\ mw = [start |-> TRUE, abort |-> FALSE, buttonBox |-> TRUE, duration |-> TRUE,
           progressBar |-> 0]
  /\ m_pc = "none"
  /\ m_log = <<>>
  /\ m_report = NoMotorReport
  /\ mh = MhInit
  /\ current_x = 0
  /\ current_y = 0
  /\ current_z = 0

\* ----------------------------------------------------- StageCalibrationDlg
ChInit == [cmds |-> <<>>, finishes |-> 0, handled |-> 0, died |-> FALSE,
           msg |-> "none", divided_by_zero |-> FALSE, src |-> "none",
           params_changed |-> FALSE, saves |-> 0, speeds_set |-> 0,
           refused |-> FALSE]

\* the calibration a configuration holds before any calibration was saved:
\* scale 1 (shift 1000 over a norm of 1000 pixels of 1000 nm), rotation atan(0/1)
DefaultCalibration ==
  [scale_x |-> [shift |-> 1000, normsq |-> 1000000, px |-> 1000],
   scale_y |-> [shift |-> 1000, normsq |-> 1000000, px |-> 1000],
   rot_x |-> [num |-> 0, den |-> 1],
   rot_y |-> [num |-> 0, den |-> 1]]

PtNames == {"x1x", "x1y", "x2x", "x2y", "y1x", "y1y", "y2x", "y2y"}

\* StageCalibrationDlg.__init__
CalibFresh ==
  /\ busy' = FALSE
  /\ calc_exception' = "None"
  /\ x_shift_vector' = <<0, 0>>
  /\ y_shift_vector' = <<0, 0>>
  /\ spin_pts' = [n \in PtNames |-> 0]
  /\ params' = stage_calibration
  /\ cw' = [start |-> TRUE, calc |-> TRUE, start_text |-> "Start", log |-> ""]
  /\ c_pc' = "none"
  /\ c_start' = <<0, 0>>
  /\ ch' = ChInit

CalibInit ==
  /\ busy = FALSE
  /\ calc_exception = "None"
  /\ x_shift_vector = <<0, 0>>
  /\ y_shift_vector = <<0, 0>>
  /\ spin_pts = [n \in PtNames |-> 0]
  /\ params = DefaultCalibration
  /\ cw = [start |-> TRUE, calc |-> TRUE, start_text |-> "Start", log |-> ""]
  /\ c_pc = "none"
  /\ c_start = <<0, 0>>
  /\ ch = ChInit

\* no worker thread alive and no signal pending
\* ------------------------------------------------------------------ EHTDlg
\* update_status with is_eht_on() = on
update_status(on) ==
  [on_enabled |-> ~on, off_enabled |-> on, status |-> IF on THEN "ON" ELSE "OFF"]

\* the dialog as designed, before __init__ has read the beam state
EhtFresh ==
  /\ ew' = [on_enabled |-> TRUE, off_enabled |-> TRUE, status |-> "OFF",
            on_text |-> "ON", off_text |-> "OFF"]
  /\ e_pc' = "none"
  /\ e_wait' = 0

EhtInit ==
  /\ ew = [on_enabled |-> TRUE, off_enabled |-> TRUE, status |-> "OFF",
           on_text |-> "ON", off_text |-> "OFF"]
  /\ e_pc = "none"
  /\ e_wait = 0

Quiet ==
  /\ a_pc = "none" /\ m_pc = "none" /\ c_pc = "none" /\ e_pc = "none"
  /\ queue = <<>>

\* the operator opens the approach dialog from the main window
OpenApproachDlg ==
  /\ dlg = "none" /\ Quiet
  /\ dlg' = "approach"
  /\ ApproachFresh
  /\ \E t \in Thicknesses : spinBox_thickness' = t
  /\ MotorFresh
  /\ CalibFresh
  /\ EhtFresh
  /\ UNCHANGED <<queue, error_state, spin_cal, stage_calibration, stage_xy, images_ok>>

\* spinBox_numberSlices.valueChanged -> update_progress
ChangeNumberSlices ==
  /\ dlg = "approach" /\ aw.spins
  /\ \E n \in 1..MaxSlices :
       /\ n # spinBox_numberSlices
       /\ spinBox_numberSlices' = n
       /\ max_slices' = n
       /\ aw' = [aw EXCEPT !.progressBar = ProgressValue(slice_counter, n)]
  /\ UNCHANGED <<ehtVars, motorVars, calVars, dlg, queue, error_state, slice_counter,
                 approach_in_progress, aborted,
                 z_mismatch, thickness, spinBox_thickness, a_pc, z_position, a_report, ah>>

\* the progress signal reaches update_progress
update_progress ==
  /\ queue # <<>> /\ Head(queue) = "a_progress"
  /\ queue' = Tail(queue)
  /\ max_slices' = spinBox_numberSlices
  /\ aw' = [aw EXCEPT !.progressBar = ProgressValue(slice_counter, spinBox_numberSlices)]
  /\ UNCHANGED <<ehtVars, motorVars, calVars, dlg, error_state, slice_counter,
                 approach_in_progress, aborted,
                 z_mismatch, thickness, spinBox_numberSlices, spinBox_thickness, a_pc,
                 z_position, a_report, ah>>

\* mutant: the start button is not disabled
start_approach_start_enabled ==
  /\ dlg = "approach" /\ aw.start
  /\ aw' = [aw EXCEPT !.abort = TRUE, !.buttonBox = FALSE,
                      !.spins = FALSE]
  /\ a_pc' = "set_in_progress"
  /\ ah' = AhInit
  /\ a_report' = NoReport
  /\ UNCHANGED <<ehtVars, motorVars, calVars, dlg, queue, error_state, slice_counter,
                 approach_in_progress, aborted,
                 z_mismatch, max_slices, thickness, spinBox_numberSlices,
                 spinBox_thickness, z_position>>

start_approach ==
  /\ dlg = "approach" /\ aw.start
  /\ aw' = [aw EXCEPT !.start = FALSE, !.abort = TRUE, !.buttonBox = FALSE,
                      !.spins = FALSE]
  /\ a_pc' = "set_in_progress"
  /\ ah' = AhInit
  /\ a_report' = NoReport
  /\ UNCHANGED <<ehtVars, motorVars, calVars, dlg, queue, error_state, slice_counter,
                 approach_in_progress, aborted,
                 z_mismatch, max_slices, thickness, spinBox_numberSlices,
                 spinBox_thickness, z_position>>

abort_approach ==
  /\ dlg = "approach" /\ aw.abort
  /\ aborted' = TRUE
  /\ aw' = [aw EXCEPT !.abort = FALSE]
  /\ ah' = [ah EXCEPT !.abort_req = TRUE, !.abort_pc = a_pc,
                      !.abort_cycle = slice_counter + 1]
  /\ UNCHANGED <<ehtVars, motorVars, calVars, dlg, queue, error_state, slice_counter,
                 approach_in_progress,
                 z_mismatch, max_slices, thickness, spinBox_numberSlices,
                 spinBox_thickness, a_pc, z_position, a_report>>

\* mutant: the loop stops one slice early
loop_condition_one_short == slice_counter + 1 < max_slices /\ ~aborted

\* while (self.slice_counter < self.max_slices) and not self.aborted
loop_condition == slice_counter < max_slices /\ ~aborted

\* if self.microtome.error_state > 0
fault_detected == error_state > 0

\* mutant: a failed knife-clear turns the report into the abort report
ReportKindMasked(warn) ==
  IF warn \/ (aborted /\ ~z_mismatch) THEN "aborted"
  ELSE IF ~aborted THEN "finished" ELSE "z_mismatch"

\* the outcome branches of finish_approach; warn: the knife-clear warning
\* was shown before
ReportKind(warn) == IF ~aborted THEN "finished"
                    ELSE IF z_mismatch THEN "z_mismatch" ELSE "aborted"

finish_approach ==
  /\ queue # <<>> /\ Head(queue) = "a_finish"
  /\ queue' = Tail(queue)
  /\ \E e \in HwOutcomes :
       LET after_clear == HwCall(e)
           warn == after_clear > 0
           kind == ReportKind(warn)
       IN /\ error_state' = IF warn \/ kind = "z_mismatch" THEN 0 ELSE after_clear
          /\ a_report' = [kind |-> kind,
                          slices |-> CASE kind = "finished" -> max_slices
                                       [] kind = "aborted" -> slice_counter
                                       [] OTHER -> 0,
                          depth |-> CASE kind = "finished" -> max_slices * thickness
                                      [] kind = "aborted" -> slice_counter * thickness
                                      [] OTHER -> 0,
                          clear_warning |-> warn]
          /\ slice_counter' = IF kind = "z_mismatch" THEN slice_counter ELSE 0
          /\ max_slices' = IF kind = "z_mismatch" THEN max_slices
                           ELSE spinBox_numberSlices
          /\ aw' = [start |-> TRUE, abort |-> FALSE, buttonBox |-> TRUE, spins |-> TRUE,
                    progressBar |-> IF kind = "z_mismatch" THEN aw.progressBar
                                    ELSE ProgressValue(0, spinBox_numberSlices)]
          /\ ah' = [ah EXCEPT !.clears = @ + 1, !.handled = @ + 1,
                              !.hw_fault = @ \/ e # 0, !.clear_fault = e # 0]
  /\ approach_in_progress' = FALSE
  /\ UNCHANGED <<ehtVars, motorVars, calVars, dlg, aborted, z_mismatch, thickness,
                 spinBox_numberSlices,
                 spinBox_thickness, a_pc, z_position>>

a_closeEvent ==
  /\ dlg = "approach"
  /\ dlg' = IF ~approach_in_progress THEN "none" ELSE dlg
  /\ UNCHANGED <<ehtVars, queue, error_state, apprVars, motorVars, calVars>>

a_accept ==
  /\ dlg = "approach" /\ aw.buttonBox
  /\ dlg' = IF ~approach_in_progress THEN "none" ELSE dlg
  /\ UNCHANGED <<ehtVars, queue, error_state, apprVars, motorVars, calVars>>

\* ---- approach_thread, one action per step between two points where the
\* ---- presentation thread can run
thr_set_in_progress ==
  /\ a_pc = "set_in_progress"
  /\ approach_in_progress' = TRUE
  /\ a_pc' = "clear_aborted"
  /\ UNCHANGED <<ehtVars, motorVars, calVars, dlg, queue, error_state, slice_counter,
                 aborted, z_mismatch, max_slices,
                 thickness, spinBox_numberSlices, spinBox_thickness, aw, z_position,
                 a_report, ah>>

thr_clear_aborted ==
  /\ a_pc = "clear_aborted"
  /\ aborted' = FALSE
  /\ a_pc' = "init_run"
  /\ UNCHANGED <<ehtVars, motorVars, calVars, dlg, queue, error_state, slice_counter,
                 approach_in_progress,
                 z_mismatch, max_slices, thickness, spinBox_numberSlices,
                 spinBox_thickness, aw, z_position, a_report, ah>>

thr_init_run ==
  /\ a_pc = "init_run"
  /\ z_mismatch' = FALSE
  /\ slice_counter' = 0
  /\ max_slices' = spinBox_numberSlices
  /\ thickness' = spinBox_thickness
  /\ Emit("a_progress")
  /\ a_pc' = "read_z"
  /\ ah' = [ah EXCEPT !.target = spinBox_numberSlices]
  /\ UNCHANGED <<ehtVars, motorVars, calVars, dlg, error_state, approach_in_progress,
                 aborted,
                 spinBox_numberSlices, spinBox_thickness, aw, z_position, a_report>>

thr_read_z ==
  /\ a_pc = "read_z"
  /\ \E z \in ZReads, e \in HwOutcomes :
       /\ z_position' = z
       /\ error_state' = HwCall(e)
       /\ a_pc' = IF ZFailed(z) THEN "retry_z" ELSE "check_206"
       /\ ah' = [ah EXCEPT !.hw_fault = @ \/ e # 0, !.read_ok = ~ZFailed(z),
                        !.z0 = z]
  /\ UNCHANGED <<ehtVars, motorVars, calVars, dlg, queue, slice_counter,
                 approach_in_progress, aborted, z_mismatch,
                 max_slices, thickness, spinBox_numberSlices, spinBox_thickness, aw,
                 a_report>>

thr_retry_z ==
  /\ a_pc = "retry_z"
  /\ \E z \in ZReads, e \in HwOutcomes :
       /\ z_position' = z
       /\ error_state' = IF ZFailed(z) THEN 0 ELSE HwCall(e)
       /\ aborted' = IF ZFailed(z) THEN TRUE ELSE aborted
       /\ ah' = [ah EXCEPT !.hw_fault = @ \/ e # 0, !.read_ok = ~ZFailed(z),
                        !.z0 = z]
  /\ a_pc' = "check_206"
  /\ UNCHANGED <<ehtVars, motorVars, calVars, dlg, queue, slice_counter,
                 approach_in_progress, z_mismatch,
                 max_slices, thickness, spinBox_numberSlices, spinBox_thickness, aw,
                 a_report>>

\* mutant: a 206 after the reads is recorded but does not abort the run
thr_check_206_no_abort ==
  /\ a_pc = "check_206"
  /\ IF error_state = ErrZMismatch
       THEN /\ error_state' = 0
            /\ z_mismatch' = TRUE
            /\ UNCHANGED aborted
       ELSE UNCHANGED <<error_state, z_mismatch, aborted>>
  /\ a_pc' = "near_knife"
  /\ UNCHANGED <<ehtVars, motorVars, calVars, dlg, queue, slice_counter,
                 approach_in_progress, max_slices, thickness,
                 spinBox_numberSlices, spinBox_thickness, aw, z_position, a_report, ah>>

thr_check_206 ==
  /\ a_pc = "check_206"
  /\ IF error_state = ErrZMismatch
       THEN /\ error_state' = 0
            /\ z_mismatch' = TRUE
            /\ aborted' = TRUE
       ELSE UNCHANGED <<error_state, z_mismatch, aborted>>
  /\ a_pc' = "near_knife"
  /\ UNCHANGED <<ehtVars, motorVars, calVars, dlg, queue, slice_counter,
                 approach_in_progress, max_slices, thickness,
                 spinBox_numberSlices, spinBox_thickness, aw, z_position, a_report, ah>>

thr_near_knife ==
  /\ a_pc = "near_knife"
  /\ IF ~aborted
       THEN \E e \in HwOutcomes :
              /\ error_state' = HwCall(e)
              /\ ah' = [ah EXCEPT !.nears = @ + 1, !.hw_fault = @ \/ e # 0]
              /\ a_pc' = "near_check"
       ELSE /\ a_pc' = "loop"
            /\ UNCHANGED <<error_state, ah>>
  /\ UNCHANGED <<ehtVars, motorVars, calVars, dlg, queue, slice_counter,
                 approach_in_progress, aborted, z_mismatch,
                 max_slices, thickness, spinBox_numberSlices, spinBox_thickness, aw,
                 z_position, a_report>>

\* mutant: a fault of the knife-near move is acknowledged and the run goes on
thr_near_check_ignored ==
  /\ a_pc = "near_check"
  /\ IF fault_detected
       THEN error_state' = 0 /\ UNCHANGED aborted
       ELSE UNCHANGED <<aborted, error_state>>
  /\ ah' = [ah EXCEPT !.near_fault = fault_detected]
  /\ a_pc' = "loop"
  /\ UNCHANGED <<ehtVars, motorVars, calVars, dlg, queue, slice_counter,
                 approach_in_progress, z_mismatch, max_slices, thickness,
                 spinBox_numberSlices, spinBox_thickness, aw, z_position, a_report>>

thr_near_check ==
  /\ a_pc = "near_check"
  /\ IF fault_detected
       THEN aborted' = TRUE /\ error_state' = 0
       ELSE UNCHANGED <<aborted, error_state>>
  /\ ah' = [ah EXCEPT !.near_fault = fault_detected]
  /\ a_pc' = "loop"
  /\ UNCHANGED <<ehtVars, motorVars, calVars, dlg, queue, slice_counter,
                 approach_in_progress, z_mismatch, max_slices, thickness,
                 spinBox_numberSlices, spinBox_thickness, aw, z_position, a_report>>

thr_loop ==
  /\ a_pc = "loop"
  /\ a_pc' = IF loop_condition THEN "move_z" ELSE "emit_finish"
  /\ ah' = [ah EXCEPT !.cycle_after_abort = @ \/ (ah.abort_req /\ loop_condition)]
  /\ UNCHANGED <<ehtVars, motorVars, calVars, dlg, queue, error_state, slice_counter,
                 approach_in_progress, aborted,
                 z_mismatch, max_slices, thickness, spinBox_numberSlices,
                 spinBox_thickness, aw, z_position, a_report>>

\* mutant: the target is the start position plus one thickness in every cycle
thr_move_z_from_start ==
  /\ a_pc = "move_z"
  /\ z_position' = <<ah.z0[1] + thickness>>
  /\ ah' = [ah EXCEPT !.moves = @ + 1, !.cmd_after_fault = @ \/ ah.fault_seen]
  /\ a_pc' = "move_wait"
  /\ UNCHANGED <<ehtVars, motorVars, calVars, dlg, queue, error_state, slice_counter,
                 approach_in_progress, aborted, z_mismatch, max_slices, thickness,
                 spinBox_numberSlices, spinBox_thickness, aw, a_report>>

\* z_position + thickness/1000 and the call of move_stage_to_z
thr_move_z ==
  /\ a_pc = "move_z"
  /\ z_position' = <<z_position[1] + thickness>>
  /\ ah' = [ah EXCEPT !.moves = @ + 1, !.cmd_after_fault = @ \/ ah.fault_seen]
  /\ a_pc' = "move_wait"
  /\ UNCHANGED <<ehtVars, motorVars, calVars, dlg, queue, error_state, slice_counter,
                 approach_in_progress, aborted,
                 z_mismatch, max_slices, thickness, spinBox_numberSlices,
                 spinBox_thickness, aw, a_report>>

\* move_stage_to_z returns
thr_move_done ==
  /\ a_pc = "move_wait"
  /\ \E e \in HwOutcomes :
       /\ error_state' = HwCall(e)
       /\ ah' = [ah EXCEPT !.hw_fault = @ \/ e # 0,
                           !.fault_seen = @ \/ HwCall(e) # 0,
                           !.fault206_cycle = IF HwCall(e) = ErrZMismatch
                                              THEN slice_counter + 1 ELSE @]
  /\ a_pc' = "move_check"
  /\ UNCHANGED <<ehtVars, motorVars, calVars, dlg, queue, slice_counter,
                 approach_in_progress, aborted, z_mismatch,
                 max_slices, thickness, spinBox_numberSlices, spinBox_thickness, aw,
                 z_position, a_report>>

\* mutant: the abort flag is honoured inside the cycle, before the cut
thr_move_check_abort_aware ==
  /\ a_pc = "move_check"
  /\ IF fault_detected
       THEN aborted' = TRUE /\ error_state' = 0 /\ a_pc' = "emit_finish"
       ELSE /\ a_pc' = IF aborted THEN "emit_finish" ELSE "cut"
            /\ UNCHANGED <<aborted, error_state>>
  /\ UNCHANGED <<ehtVars, motorVars, calVars, dlg, queue, slice_counter,
                 approach_in_progress,
                 z_mismatch, max_slices, thickness, spinBox_numberSlices,
                 spinBox_thickness, aw, z_position, a_report, ah>>

thr_move_check ==
  /\ a_pc = "move_check"
  /\ IF fault_detected
       THEN aborted' = TRUE /\ error_state' = 0 /\ a_pc' = "emit_finish"
       ELSE a_pc' = "cut" /\ UNCHANGED <<aborted, error_state>>
  /\ UNCHANGED <<ehtVars, motorVars, calVars, dlg, queue, slice_counter,
                 approach_in_progress, z_mismatch,
                 max_slices, thickness, spinBox_numberSlices, spinBox_thickness, aw,
                 z_position, a_report, ah>>

\* the call of do_full_approach_cut
thr_cut ==
  /\ a_pc = "cut"
  /\ ah' = [ah EXCEPT !.cuts = @ + 1, !.cmd_after_fault = @ \/ ah.fault_seen]
  /\ a_pc' = "cut_wait"
  /\ UNCHANGED <<ehtVars, motorVars, calVars, dlg, queue, error_state, slice_counter,
                 approach_in_progress, aborted,
                 z_mismatch, max_slices, thickness, spinBox_numberSlices,
                 spinBox_thickness, aw, z_position, a_report>>

\* do_full_approach_cut has returned and sleep(full_cut_duration - 5) is over
thr_cut_done ==
  /\ a_pc = "cut_wait"
  /\ \E e \in HwOutcomes :
       /\ error_state' = HwCall(e)
       /\ ah' = [ah EXCEPT !.hw_fault = @ \/ e # 0,
                           !.fault_seen = @ \/ HwCall(e) # 0,
                           !.ok_cuts = IF HwCall(e) = 0 THEN @ + 1 ELSE @]
  /\ a_pc' = "cut_check"
  /\ UNCHANGED <<ehtVars, motorVars, calVars, dlg, queue, slice_counter,
                 approach_in_progress, aborted, z_mismatch,
                 max_slices, thickness, spinBox_numberSlices, spinBox_thickness, aw,
                 z_position, a_report>>

\* mutant: a cutting problem resets the register but the loop goes on
thr_cut_check_no_abort ==
  /\ a_pc = "cut_check"
  /\ IF fault_detected
       THEN /\ error_state' = 0 /\ a_pc' = "loop"
            /\ UNCHANGED <<aborted, slice_counter, queue>>
       ELSE /\ slice_counter' = slice_counter + 1
            /\ Emit("a_progress")
            /\ a_pc' = "loop"
            /\ UNCHANGED <<aborted, error_state>>
  /\ UNCHANGED <<ehtVars, motorVars, calVars, dlg, approach_in_progress, z_mismatch,
                 max_slices,
                 thickness, spinBox_numberSlices, spinBox_thickness, aw, z_position,
                 a_report, ah>>

thr_cut_check ==
  /\ a_pc = "cut_check"
  /\ IF fault_detected
       THEN /\ aborted' = TRUE /\ error_state' = 0 /\ a_pc' = "emit_finish"
            /\ UNCHANGED <<slice_counter, queue>>
       ELSE /\ slice_counter' = slice_counter + 1
            /\ Emit("a_progress")
            /\ a_pc' = "loop"
            /\ UNCHANGED <<aborted, error_state>>
  /\ UNCHANGED <<ehtVars, motorVars, calVars, dlg, approach_in_progress, z_mismatch,
                 max_slices, thickness,
                 spinBox_numberSlices, spinBox_thickness, aw, z_position, a_report, ah>>

\* mutant: the completion signal is posted twice
thr_emit_finish_twice ==
  /\ a_pc = "emit_finish"
  /\ queue' = Append(Append(queue, "a_finish"), "a_finish")
  /\ ah' = [ah EXCEPT !.finishes = @ + 1]
  /\ a_pc' = "none"
  /\ UNCHANGED <<ehtVars, motorVars, calVars, dlg, error_state, slice_counter,
                 approach_in_progress, aborted,
                 z_mismatch, max_slices, thickness, spinBox_numberSlices,
                 spinBox_thickness, aw, z_position, a_report>>

thr_emit_finish ==
  /\ a_pc = "emit_finish"
  /\ Emit("a_finish")
  /\ ah' = [ah EXCEPT !.finishes = @ + 1]
  /\ a_pc' = "none"
  /\ UNCHANGED <<ehtVars, motorVars, calVars, dlg, error_state, slice_counter,
                 approach_in_progress, aborted,
                 z_mismatch, max_slices, thickness, spinBox_numberSlices,
                 spinBox_thickness, aw, z_position, a_report>>

approach_thread ==
  \/ thr_set_in_progress \/ thr_clear_aborted \/ thr_init_run \/ thr_read_z
  \/ thr_retry_z \/ thr_check_206 \/ thr_near_knife \/ thr_near_check \/ thr_loop
  \/ thr_move_z \/ thr_move_done \/ thr_move_check \/ thr_cut \/ thr_cut_done
  \/ thr_cut_check \/ thr_emit_finish

\* ----------------------------------------------------------- MotorTestDlg
\* values get_stage_z can return to start_random_walk: None, a reading inside
\* and a reading above the range of the walk
MotorZReads == {NoneZ, <<50>>, <<700000>>}

\* the three values of random() - 0.5 drawn in one iteration (for x, y and z),
\* in thousandths
RndDraws == {<<-500, 495, -500>>, <<495, -500, 495>>}

\* one iteration's position, lines 2778-2795: the step, the clamp of z at 0
\* and the return to the starting point at the end of the permissible range
NextPosition(x, y, z, n, rx, ry, rz, sz) ==
  LET dist == IF n % 10 = 0 THEN LongDist ELSE ShortDist
      x1 == x + rx * dist
      y1 == y + ry * dist
      z1 == IF n % 2 = 0 THEN z + (rz * ZSpread) \div 1000 ELSE z + ZStep
      z2 == IF z1 < 0 THEN 0 ELSE z1
  IN IF Abs(x1) > WalkLimit \/ Abs(y1) > WalkLimit \/ z2 > WalkLimit
       THEN <<0, 0, sz>>
       ELSE <<x1, y1, z2>>

OpenMotorDlg ==
  /\ dlg = "none" /\ Quiet
  /\ dlg' = "motor"
  /\ MotorFresh
  /\ ApproachFresh
  /\ CalibFresh
  /\ spinBox_thickness' = DefaultThickness
  /\ EhtFresh
  /\ UNCHANGED <<queue, error_state, spin_cal, stage_calibration, stage_xy, images_ok>>

\* time() advances past start_time + duration * 60
time_passes ==
  /\ start_time = "running"
  /\ start_time' = "expired"
  /\ UNCHANGED <<ehtVars, apprVars, calVars, walkVars, dlg, queue, error_state,
                 test_in_progress,
                 m_aborted, start_z, number_tests, number_errors, mw, m_pc, m_log,
                 m_report, mh>>

\* the progress signal reaches MotorTestDlg.update_progress; 50 stands for
\* any bar value of a test whose time is not up
m_update_progress ==
  /\ queue # <<>> /\ Head(queue) = "m_progress"
  /\ queue' = Tail(queue)
  /\ IF start_time # "None"
       THEN IF start_time = "expired"
              THEN /\ test_in_progress' = FALSE
                   /\ mw' = [mw EXCEPT !.progressBar = 100]
                   /\ mh' = [mh EXCEPT !.timed_out = TRUE]
              ELSE /\ mw' = [mw EXCEPT !.progressBar = 50]
                   /\ UNCHANGED <<test_in_progress, mh>>
       ELSE UNCHANGED <<test_in_progress, mw, mh>>
  /\ UNCHANGED <<ehtVars, apprVars, calVars, walkVars, dlg, error_state, m_aborted,
                 start_time,
                 start_z, number_tests, number_errors, m_pc, m_log, m_report>>

\* mutant: the register is left as the failed read set it
start_random_walk_no_reset ==
  /\ dlg = "motor" /\ mw.start
  /\ m_aborted' = FALSE
  /\ \E z \in MotorZReads, e \in HwOutcomes :
       /\ start_z' = z
       /\ IF z # NoneZ
            THEN /\ mw' = [start |-> FALSE, abort |-> TRUE, buttonBox |-> FALSE,
                           duration |-> FALSE, progressBar |-> 0]
                 /\ m_pc' = "set_in_progress"
                 /\ error_state' = HwCall(e)
                 /\ mh' = MhInit
                 /\ m_report' = NoMotorReport
            ELSE /\ error_state' = HwCall(e)
                 /\ m_report' = [NoMotorReport EXCEPT !.kind = "no_z"]
                 /\ UNCHANGED <<mw, m_pc, mh>>
  /\ UNCHANGED <<ehtVars, apprVars, calVars, walkVars, dlg, queue, test_in_progress,
                 start_time,
                 number_tests, number_errors, m_log>>

start_random_walk ==
  /\ dlg = "motor" /\ mw.start
  /\ m_aborted' = FALSE
  /\ \E z \in MotorZReads, e \in HwOutcomes :
       /\ start_z' = z
       /\ IF z # NoneZ
            THEN /\ mw' = [start |-> FALSE, abort |-> TRUE, buttonBox |-> FALSE,
                           duration |-> FALSE, progressBar |-> 0]
                 /\ m_pc' = "set_in_progress"
                 /\ error_state' = HwCall(e)
                 /\ mh' = MhInit
                 /\ m_report' = NoMotorReport
            ELSE /\ error_state' = 0
                 /\ m_report' = [NoMotorReport EXCEPT !.kind = "no_z"]
                 /\ UNCHANGED <<mw, m_pc, mh>>
  /\ UNCHANGED <<ehtVars, apprVars, calVars, walkVars, dlg, queue, test_in_progress,
                 start_time,
                 number_tests, number_errors, m_log>>

abort_random_walk ==
  /\ dlg = "motor" /\ mw.abort
  /\ m_aborted' = TRUE
  /\ test_in_progress' = FALSE
  /\ mh' = [mh EXCEPT !.abort_req = TRUE]
  /\ UNCHANGED <<ehtVars, apprVars, calVars, walkVars, dlg, queue, error_state,
                 start_time, start_z,
                 number_tests, number_errors, mw, m_pc, m_log, m_report>>

\* mutant: the stage is moved back with safe mode left on
test_finished_safe_mode ==
  /\ queue # <<>> /\ Head(queue) = "m_finish"
  /\ queue' = Tail(queue)
  /\ \E e \in HwOutcomes :
       /\ error_state' = IF HwCall(e) > 0 THEN 0 ELSE HwCall(e)
       /\ m_report' = [kind |-> IF m_aborted THEN "aborted" ELSE "complete",
                       restore_warning |-> HwCall(e) > 0,
                       tests |-> IF m_aborted THEN 0 ELSE number_tests,
                       errors |-> IF m_aborted THEN 0 ELSE number_errors]
  /\ mh' = [mh EXCEPT !.restores = @ + 1, !.handled = @ + 1, !.restore_z = start_z,
                      !.restore_safe_mode = TRUE]
  /\ mw' = [mw EXCEPT !.start = TRUE, !.abort = FALSE, !.buttonBox = TRUE,
                      !.duration = TRUE]
  /\ test_in_progress' = FALSE
  /\ UNCHANGED <<ehtVars, apprVars, calVars, walkVars, dlg, m_aborted, start_time,
                 start_z,
                 number_tests, number_errors, m_pc, m_log>>

test_finished ==
  /\ queue # <<>> /\ Head(queue) = "m_finish"
  /\ queue' = Tail(queue)
  /\ \E e \in HwOutcomes :
       /\ error_state' = IF HwCall(e) > 0 THEN 0 ELSE HwCall(e)
       /\ m_report' = [kind |-> IF m_aborted THEN "aborted" ELSE "complete",
                       restore_warning |-> HwCall(e) > 0,
                       tests |-> IF m_aborted THEN 0 ELSE number_tests,
                       errors |-> IF m_aborted THEN 0 ELSE number_errors]
  /\ mh' = [mh EXCEPT !.restores = @ + 1, !.handled = @ + 1, !.restore_z = start_z,
                      !.restore_safe_mode = FALSE]
  /\ mw' = [mw EXCEPT !.start = TRUE, !.abort = FALSE, !.buttonBox = TRUE,
                      !.duration = TRUE]
  /\ test_in_progress' = FALSE
  /\ UNCHANGED <<ehtVars, apprVars, calVars, walkVars, dlg, m_aborted, start_time,
                 start_z,
                 number_tests, number_errors, m_pc, m_log>>

m_closeEvent ==
  /\ dlg = "motor"
  /\ dlg' = IF ~test_in_progress THEN "none" ELSE dlg
  /\ UNCHANGED <<ehtVars, queue, error_state, apprVars, motorVars, calVars>>

\* MotorTestDlg.accept reads self.approach_in_progress, which MotorTestDlg
\* never sets: the read raises AttributeError and the dialog stays open
m_accept ==
  /\ dlg = "motor" /\ mw.buttonBox
  /\ mh' = [mh EXCEPT !.accept_raised = TRUE]
  /\ UNCHANGED <<ehtVars, apprVars, calVars, walkVars, dlg, queue, error_state,
                 test_in_progress,
                 m_aborted, start_time, start_z, number_tests, number_errors, mw, m_pc,
                 m_log, m_report>>

\* ---- random_walk_thread
rw_set_in_progress ==
  /\ m_pc = "set_in_progress"
  /\ test_in_progress' = TRUE
  /\ m_pc' = "init_run"
  /\ UNCHANGED <<ehtVars, apprVars, calVars, walkVars, dlg, queue, error_state, m_aborted,
                 start_time, start_z, number_tests, number_errors, mw, m_log, m_report,
                 mh>>

\* lines 2766-2775; open(..., 'w') empties the log file
rw_init_run ==
  /\ m_pc = "init_run"
  /\ start_time' = "running"
  /\ Emit("m_progress")
  /\ number_tests' = 0
  /\ number_errors' = 0
  /\ current_x' = 0
  /\ current_y' = 0
  /\ current_z' = start_z[1]
  /\ m_log' = <<>>
  /\ m_pc' = "loop"
  /\ UNCHANGED <<ehtVars, apprVars, calVars, dlg, error_state, test_in_progress,
                 m_aborted, start_z,
                 mw, m_report, mh>>

\* while self.test_in_progress; the model's runs have at most MaxTests
\* iterations
rw_loop ==
  /\ m_pc = "loop"
  /\ ~test_in_progress \/ number_tests < MaxTests
  /\ m_pc' = IF test_in_progress THEN "step" ELSE "summary"
  /\ mh' = [mh EXCEPT !.iter_after_abort = @ \/ (mh.abort_req /\ test_in_progress),
                      !.iter_after_timeout = @ \/ (mh.timed_out /\ test_in_progress)]
  /\ UNCHANGED <<ehtVars, apprVars, calVars, walkVars, dlg, queue, error_state,
                 test_in_progress,
                 m_aborted, start_time, start_z, number_tests, number_errors, mw, m_log,
                 m_report>>

\* the new position is computed, its line is written and move_stage_to_xy
\* is called
rw_step ==
  /\ m_pc = "step"
  /\ \E r \in RndDraws :
       LET p == NextPosition(current_x, current_y, current_z, number_tests,
                             r[1], r[2], r[3], start_z[1])
       IN /\ current_x' = p[1]
          /\ current_y' = p[2]
          /\ current_z' = p[3]
          /\ m_log' = Append(m_log, <<"POS", p[1], p[2], p[3]>>)
          /\ mh' = [mh EXCEPT !.xy_moves = @ + 1, !.sent_xy = <<p[1], p[2]>>]
  /\ m_pc' = "xy_wait"
  /\ UNCHANGED <<ehtVars, apprVars, calVars, dlg, queue, error_state, test_in_progress,
                 m_aborted,
                 start_time, start_z, number_tests, number_errors, mw, m_report>>

rw_xy_done ==
  /\ m_pc = "xy_wait"
  /\ \E e \in HwOutcomes : error_state' = HwCall(e)
  /\ m_pc' = "xy_check"
  /\ UNCHANGED <<ehtVars, apprVars, calVars, walkVars, dlg, queue, test_in_progress,
                 m_aborted,
                 start_time, start_z, number_tests, number_errors, mw, m_log, m_report,
                 mh>>

\* mutant: after an XY fault the Z move is commanded all the same
rw_xy_check_then_z ==
  /\ m_pc = "xy_check"
  /\ IF fault_detected
       THEN /\ number_errors' = number_errors + 1
            /\ m_log' = Append(m_log, <<"XY_ERROR", "error_info">>)
            /\ error_state' = 0
            /\ m_pc' = "z_wait"
            /\ mh' = [mh EXCEPT !.z_moves = @ + 1, !.sent_z = <<current_z>>]
       ELSE /\ mh' = [mh EXCEPT !.z_moves = @ + 1, !.sent_z = <<current_z>>]
            /\ m_pc' = "z_wait"
            /\ UNCHANGED <<number_errors, m_log, error_state>>
  /\ UNCHANGED <<ehtVars, apprVars, calVars, walkVars, dlg, queue, test_in_progress,
                 m_aborted,
                 start_time, start_z, number_tests, mw, m_report>>

\* the check after the XY move; without a fault move_stage_to_z is called
rw_xy_check ==
  /\ m_pc = "xy_check"
  /\ IF fault_detected
       THEN /\ number_errors' = number_errors + 1
            /\ m_log' = Append(m_log, <<"XY_ERROR", "error_info">>)
            /\ error_state' = 0
            /\ m_pc' = "count"
            /\ UNCHANGED mh
       ELSE /\ mh' = [mh EXCEPT !.z_moves = @ + 1, !.sent_z = <<current_z>>]
            /\ m_pc' = "z_wait"
            /\ UNCHANGED <<number_errors, m_log, error_state>>
  /\ UNCHANGED <<ehtVars, apprVars, calVars, walkVars, dlg, queue, test_in_progress,
                 m_aborted,
                 start_time, start_z, number_tests, mw, m_report>>

rw_z_done ==
  /\ m_pc = "z_wait"
  /\ \E e \in HwOutcomes : error_state' = HwCall(e)
  /\ m_pc' = "z_check"
  /\ UNCHANGED <<ehtVars, apprVars, calVars, walkVars, dlg, queue, test_in_progress,
                 m_aborted,
                 start_time, start_z, number_tests, number_errors, mw, m_log, m_report,
                 mh>>

\* mutant: a Z error is logged but not counted
rw_z_check_uncounted ==
  /\ m_pc = "z_check"
  /\ IF fault_detected
       THEN /\ number_errors' = number_errors
            /\ m_log' = Append(m_log, <<"Z_ERROR", "error_info">>)
            /\ error_state' = 0
       ELSE /\ m_log' = Append(m_log, <<"OK">>)
            /\ UNCHANGED <<number_errors, error_state>>
  /\ m_pc' = "count"
  /\ UNCHANGED <<ehtVars, apprVars, calVars, walkVars, dlg, queue, test_in_progress,
                 m_aborted,
                 start_time, start_z, number_tests, mw, m_report, mh>>

rw_z_check ==
  /\ m_pc = "z_check"
  /\ IF fault_detected
       THEN /\ number_errors' = number_errors + 1
            /\ m_log' = Append(m_log, <<"Z_ERROR", "error_info">>)
            /\ error_state' = 0
       ELSE /\ m_log' = Append(m_log, <<"OK">>)
            /\ UNCHANGED <<number_errors, error_state>>
  /\ m_pc' = "count"
  /\ UNCHANGED <<ehtVars, apprVars, calVars, walkVars, dlg, queue, test_in_progress,
                 m_aborted,
                 start_time, start_z, number_tests, mw, m_report, mh>>

\* number_tests += 1 and the progress signal; the duration elapses no later
\* than during the MaxTests-th iteration
rw_count ==
  /\ m_pc = "count"
  /\ number_tests + 1 < MaxTests \/ start_time = "expired"
  /\ number_tests' = number_tests + 1
  /\ Emit("m_progress")
  /\ m_pc' = "loop"
  /\ UNCHANGED <<ehtVars, apprVars, calVars, walkVars, dlg, error_state, test_in_progress,
                 m_aborted, start_time, start_z, number_errors, mw, m_log, m_report, mh>>

\* the summary line and the completion signal; the thread and its locals end
rw_summary ==
  /\ m_pc = "summary"
  /\ m_log' = Append(m_log, <<"SUMMARY", number_errors>>)
  /\ Emit("m_finish")
  /\ mh' = [mh EXCEPT !.finishes = @ + 1]
  /\ m_pc' = "none"
  /\ current_x' = 0
  /\ current_y' = 0
  /\ current_z' = 0
  /\ UNCHANGED <<ehtVars, apprVars, calVars, dlg, error_state, test_in_progress,
                 m_aborted,
                 start_time, start_z, number_tests, number_errors, mw, m_report>>

random_walk_thread ==
  \/ rw_set_in_progress \/ rw_init_run \/ rw_loop \/ rw_step \/ rw_xy_done
  \/ rw_xy_check \/ rw_z_done \/ rw_z_check \/ rw_count \/ rw_summary

\* ----------------------------------------------------- StageCalibrationDlg
\* shift vectors [x, y] the image registration can return
RegShifts == {<<0, 2>>, <<-2, 0>>}
\* values of spinBox_shift and spinBox_pixelsize
CalShifts == {100}
PixelSizes == {10}
\* pixel positions the operator types before a manual calculation: 0 or 2 for
\* the primary component of the second point of each pair; the other fields
\* keep the value they have on the form
PixelVals == {0, 2}

\* atan(delta_xy/delta_xx), atan(delta_yx/delta_yy) and the two scale factors,
\* kept as the operands of the real-valued expressions
CalcParams(xv, yv, shift, px) ==
  [scale_x |-> [shift |-> shift, normsq |-> Abs(xv[1]) * Abs(xv[1]) + Abs(xv[2]) * Abs(xv[2]),
                px |-> px],
   scale_y |-> [shift |-> shift, normsq |-> Abs(yv[1]) * Abs(yv[1]) + Abs(yv[2]) * Abs(yv[2]),
                px |-> px],
   rot_x |-> [num |-> Abs(xv[2]), den |-> Abs(xv[1])],
   rot_y |-> [num |-> Abs(yv[1]), den |-> Abs(yv[2])]]

\* a divisor of calculate_stage_parameters is zero
DivisionByZero(xv, yv) == Abs(xv[1]) = 0 \/ Abs(yv[2]) = 0

\* if delta_xx == 0 or delta_yy == 0 (the check of the manual calculation)
input_rejected(dxx, dyy) == dxx = 0 \/ dyy = 0

\* calculate_stage_parameters on the vectors xv, yv.  A zero divisor either
\* raises ZeroDivisionError (Python numbers: the handler ends there) or yields
\* inf/nan (numpy numbers: the proposal is shown), as zdiv says.
calculate_stage_parameters(xv, yv, choice, zdiv, auto) ==
  IF DivisionByZero(xv, yv) /\ zdiv = "raise"
    THEN /\ ch' = [ch EXCEPT !.divided_by_zero = TRUE, !.msg = "none",
                             !.src = IF auto THEN "auto" ELSE "manual",
                             !.params_changed = FALSE,
                             !.handled = IF auto THEN @ + 1 ELSE @]
         /\ UNCHANGED <<busy, params>>
    ELSE /\ busy' = FALSE
         /\ params' = IF choice = "Ok"
                        THEN CalcParams(xv, yv, spin_cal.shift, spin_cal.px)
                        ELSE params
         /\ ch' = [ch EXCEPT !.divided_by_zero = DivisionByZero(xv, yv),
                             !.msg = "proposal",
                             !.src = IF auto THEN "auto" ELSE "manual",
                             !.params_changed = (params' # params),
                             !.handled = IF auto THEN @ + 1 ELSE @]

OpenCalibDlg ==
  /\ dlg = "none" /\ Quiet
  /\ dlg' = "calib"
  /\ CalibFresh
  /\ ApproachFresh
  /\ MotorFresh
  /\ \E sh \in CalShifts, px \in PixelSizes : spin_cal' = [shift |-> sh, px |-> px]
  /\ spinBox_thickness' = DefaultThickness
  /\ EhtFresh
  /\ UNCHANGED <<queue, error_state, stage_calibration, stage_xy, images_ok>>

start_calibration_procedure ==
  /\ dlg = "calib" /\ cw.start
  /\ \E reply \in {"Ok", "Cancel"} :
       IF reply = "Ok"
         THEN /\ busy' = TRUE
              /\ cw' = [start |-> FALSE, calc |-> FALSE, start_text |-> "Busy",
                        log |-> "acquiring"]
              /\ c_pc' = "get_xy"
              /\ ch' = ChInit
              /\ images_ok' = TRUE
         ELSE UNCHANGED <<busy, cw, c_pc, ch, images_ok>>
  /\ UNCHANGED <<ehtVars, apprVars, motorVars, dlg, queue, error_state, calc_exception,
                 x_shift_vector, y_shift_vector, spin_pts, spin_cal, params,
                 stage_calibration, c_start, stage_xy>>

\* update_calc_trigger reaches update_log
update_log ==
  /\ queue # <<>> /\ Head(queue) = "c_update"
  /\ queue' = Tail(queue)
  /\ cw' = [cw EXCEPT !.log = "computing"]
  /\ UNCHANGED <<ehtVars, apprVars, motorVars, dlg, error_state, busy, calc_exception,
                 x_shift_vector, y_shift_vector, spin_pts, spin_cal, params,
                 stage_calibration, c_pc, c_start, stage_xy, images_ok, ch>>

\* finish_trigger reaches process_results
process_results ==
  /\ queue # <<>> /\ Head(queue) = "c_finish"
  /\ queue' = Tail(queue)
  /\ IF calc_exception = "None"
       THEN /\ cw' = [start |-> TRUE, calc |-> TRUE, start_text |-> "Start",
                      log |-> "vectors"]
            /\ spin_pts' = [spin_pts EXCEPT !["x2x"] = Abs(x_shift_vector[1]),
                                            !["x2y"] = Abs(x_shift_vector[2]),
                                            !["y2x"] = Abs(y_shift_vector[1]),
                                            !["y2y"] = Abs(y_shift_vector[2])]
            /\ \E choice \in {"Ok", "Cancel"}, zdiv \in {"raise", "inf"} :
                 calculate_stage_parameters(x_shift_vector, y_shift_vector, choice, zdiv,
                                            TRUE)
       ELSE /\ cw' = [cw EXCEPT !.start = TRUE, !.calc = TRUE, !.start_text = "Start"]
            /\ busy' = FALSE
            /\ ch' = [ch EXCEPT !.handled = @ + 1, !.msg = "exception_warning",
                                !.divided_by_zero = FALSE, !.src = "auto",
                                !.params_changed = FALSE]
            /\ UNCHANGED <<spin_pts, params>>
  /\ UNCHANGED <<ehtVars, apprVars, motorVars, dlg, error_state, calc_exception,
                 x_shift_vector,
                 y_shift_vector, spin_cal, stage_calibration, c_pc, c_start, stage_xy,
                 images_ok>>

calculate_stage_parameters_from_user_input ==
  /\ dlg = "calib" /\ cw.calc
  /\ \E a \in PixelVals, b \in PixelVals :
       spin_pts' = [spin_pts EXCEPT !["x2x"] = a, !["y2y"] = b]
  /\ LET delta_xx == Abs(spin_pts'["x1x"] - spin_pts'["x2x"])
         delta_xy == Abs(spin_pts'["x1y"] - spin_pts'["x2y"])
         delta_yx == Abs(spin_pts'["y1x"] - spin_pts'["y2x"])
         delta_yy == Abs(spin_pts'["y1y"] - spin_pts'["y2y"])
     IN IF input_rejected(delta_xx, delta_yy)
          THEN /\ ch' = [ch EXCEPT !.msg = "input_warning", !.divided_by_zero = FALSE,
                                   !.src = "manual", !.params_changed = FALSE]
               /\ UNCHANGED <<cw, x_shift_vector, y_shift_vector, busy, params>>
          ELSE /\ cw' = [cw EXCEPT !.log = "manual"]
               /\ x_shift_vector' = <<delta_xx, delta_xy>>
               /\ y_shift_vector' = <<delta_yx, delta_yy>>
               /\ \E choice \in {"Ok", "Cancel"}, zdiv \in {"raise", "inf"} :
                    calculate_stage_parameters(<<delta_xx, delta_xy>>,
                                               <<delta_yx, delta_yy>>, choice, zdiv,
                                               FALSE)
  /\ UNCHANGED <<ehtVars, apprVars, motorVars, dlg, queue, error_state, calc_exception,
                 spin_cal, stage_calibration, c_pc, c_start, stage_xy, images_ok>>

\* mutant: accept does not look at busy
c_accept_while_busy ==
  /\ dlg = "calib"
  /\ stage_calibration' = params
  /\ ch' = [ch EXCEPT !.saves = @ + 1, !.speeds_set = @ + 1]
  /\ dlg' = "none"
  /\ UNCHANGED <<ehtVars, apprVars, motorVars, queue, error_state, busy, calc_exception,
                 x_shift_vector, y_shift_vector, spin_pts, spin_cal, params, cw, c_pc,
                 c_start, stage_xy, images_ok>>

c_accept ==
  /\ dlg = "calib"
  /\ IF ~busy
       THEN /\ stage_calibration' = params
            /\ ch' = [ch EXCEPT !.saves = @ + 1, !.speeds_set = @ + 1]
            /\ dlg' = "none"
       ELSE /\ ch' = [ch EXCEPT !.refused = TRUE]
            /\ UNCHANGED <<stage_calibration, dlg>>
  /\ UNCHANGED <<ehtVars, apprVars, motorVars, queue, error_state, busy, calc_exception,
                 x_shift_vector, y_shift_vector, spin_pts, spin_cal, params, cw, c_pc,
                 c_start, stage_xy, images_ok>>

c_reject ==
  /\ dlg = "calib"
  /\ dlg' = IF ~busy THEN "none" ELSE dlg
  /\ ch' = IF ~busy THEN ch ELSE [ch EXCEPT !.refused = TRUE]
  /\ UNCHANGED <<ehtVars, apprVars, motorVars, queue, error_state, busy, calc_exception,
                 x_shift_vector, y_shift_vector, spin_pts, spin_cal, params,
                 stage_calibration, cw, c_pc, c_start, stage_xy, images_ok>>

\* mutant: the close request is accepted whatever busy is
c_closeEvent_unlocked ==
  /\ dlg = "calib"
  /\ dlg' = "none"
  /\ UNCHANGED <<ehtVars, queue, error_state, apprVars, motorVars, calVars>>

c_closeEvent ==
  /\ dlg = "calib"
  /\ dlg' = IF ~busy THEN "none" ELSE dlg
  /\ ch' = IF ~busy THEN ch ELSE [ch EXCEPT !.refused = TRUE]
  /\ UNCHANGED <<ehtVars, apprVars, motorVars, queue, error_state, busy, calc_exception,
                 x_shift_vector, y_shift_vector, spin_pts, spin_cal, params,
                 stage_calibration, cw, c_pc, c_start, stage_xy, images_ok>>

\* ---- stage_calibration_acq_thread
Cmd(c, x, y) == [cmd |-> c, x |-> x, y |-> y]

CalStep(from, to, c, x, y) ==
  /\ c_pc = from
  /\ c_pc' = to
  /\ ch' = [ch EXCEPT !.cmds = Append(@, Cmd(c, x, y))]

cal_get_xy ==
  /\ CalStep("get_xy", "acq_start", "get_xy", 0, 0)
  /\ c_start' = stage_xy
  /\ UNCHANGED <<ehtVars, apprVars, motorVars, dlg, queue, error_state, busy,
                 calc_exception,
                 x_shift_vector, y_shift_vector, spin_pts, spin_cal, params,
                 stage_calibration, cw, stage_xy, images_ok>>

\* sem.acquire_frame(name): the image file is written unless the grab fails
Acquire(from, to, name) ==
  /\ CalStep(from, to, name, 0, 0)
  /\ \E ok \in BOOLEAN : images_ok' = (images_ok /\ ok)
  /\ UNCHANGED <<ehtVars, apprVars, motorVars, dlg, queue, error_state, busy,
                 calc_exception,
                 x_shift_vector, y_shift_vector, spin_pts, spin_cal, params,
                 stage_calibration, cw, c_start, stage_xy>>

\* stage.move_to_xy(target)
MoveTo(from, to, target) ==
  /\ CalStep(from, to, "move_to_xy", target[1], target[2])
  /\ stage_xy' = target
  /\ UNCHANGED <<ehtVars, apprVars, motorVars, dlg, queue, error_state, busy,
                 calc_exception,
                 x_shift_vector, y_shift_vector, spin_pts, spin_cal, params,
                 stage_calibration, cw, c_start, images_ok>>

cal_acq_start == Acquire("acq_start", "move_x", "start.tif")

cal_move_x == MoveTo("move_x", "acq_x", <<c_start[1] + spin_cal.shift, c_start[2]>>)

cal_acq_x == Acquire("acq_x", "move_y", "shift_x.tif")

\* mutant: the Y shift is taken from where the stage is
cal_move_y_from_current ==
  MoveTo("move_y", "acq_y", <<stage_xy[1], stage_xy[2] + spin_cal.shift>>)

cal_move_y == MoveTo("move_y", "acq_y", <<c_start[1], c_start[2] + spin_cal.shift>>)

cal_acq_y == Acquire("acq_y", "move_back", "shift_y.tif")

cal_move_back == MoveTo("move_back", "emit_update", c_start)

cal_emit_update ==
  /\ c_pc = "emit_update"
  /\ Emit("c_update")
  /\ c_pc' = "imread"
  /\ UNCHANGED <<ehtVars, apprVars, motorVars, dlg, error_state, busy, calc_exception,
                 x_shift_vector, y_shift_vector, spin_pts, spin_cal, params,
                 stage_calibration, cw, c_start, stage_xy, images_ok, ch>>

\* the three imread calls: a missing image raises and ends the thread
cal_imread ==
  /\ c_pc = "imread"
  /\ IF images_ok
       THEN /\ calc_exception' = "None"
            /\ c_pc' = "register"
            /\ UNCHANGED ch
       ELSE /\ c_pc' = "none"
            /\ ch' = [ch EXCEPT !.died = TRUE]
            /\ UNCHANGED calc_exception
  /\ UNCHANGED <<ehtVars, apprVars, motorVars, dlg, queue, error_state, busy,
                 x_shift_vector,
                 y_shift_vector, spin_pts, spin_cal, params, stage_calibration, cw,
                 c_start, stage_xy, images_ok>>

\* mutant: each vector is stored as soon as its registration returns
cal_register_stores_early ==
  /\ c_pc = "register"
  /\ \/ /\ calc_exception' = "Exception"
        /\ \E xs \in RegShifts : x_shift_vector' = xs
        /\ UNCHANGED y_shift_vector
     \/ /\ \E xs \in RegShifts, ys \in RegShifts :
             x_shift_vector' = xs /\ y_shift_vector' = ys
        /\ UNCHANGED calc_exception
  /\ c_pc' = "emit_finish"
  /\ UNCHANGED <<ehtVars, apprVars, motorVars, dlg, queue, error_state, busy, spin_pts,
                 spin_cal,
                 params, stage_calibration, cw, c_start, stage_xy, images_ok, ch>>

\* the try block: both registrations, then the two vectors are stored
cal_register ==
  /\ c_pc = "register"
  /\ \/ /\ calc_exception' = "Exception"
        /\ UNCHANGED <<x_shift_vector, y_shift_vector>>
     \/ /\ \E xs \in RegShifts, ys \in RegShifts :
             x_shift_vector' = xs /\ y_shift_vector' = ys
        /\ UNCHANGED calc_exception
  /\ c_pc' = "emit_finish"
  /\ UNCHANGED <<ehtVars, apprVars, motorVars, dlg, queue, error_state, busy, spin_pts,
                 spin_cal,
                 params, stage_calibration, cw, c_start, stage_xy, images_ok, ch>>

cal_emit_finish ==
  /\ c_pc = "emit_finish"
  /\ Emit("c_finish")
  /\ ch' = [ch EXCEPT !.finishes = @ + 1]
  /\ c_pc' = "none"
  /\ UNCHANGED <<ehtVars, apprVars, motorVars, dlg, error_state, busy, calc_exception,
                 x_shift_vector, y_shift_vector, spin_pts, spin_cal, params,
                 stage_calibration, cw, c_start, stage_xy, images_ok>>

stage_calibration_acq_thread ==
  \/ cal_get_xy \/ cal_acq_start \/ cal_move_x \/ cal_acq_x \/ cal_move_y \/ cal_acq_y
  \/ cal_move_back \/ cal_emit_update \/ cal_imread \/ cal_register \/ cal_emit_finish

\* ------------------------------------------------------------------ EHTDlg
\* EHTDlg.__init__, with its call of update_status
OpenEhtDlg ==
  /\ dlg = "none" /\ Quiet
  /\ dlg' = "eht"
  /\ \E on \in BOOLEAN :
       ew' = update_status(on) @@ [on_text |-> "ON", off_text |-> "OFF"]
  /\ e_pc' = "none"
  /\ e_wait' = 0
  /\ ApproachFresh
  /\ MotorFresh
  /\ CalibFresh
  /\ spinBox_thickness' = DefaultThickness
  /\ UNCHANGED <<queue, error_state, spin_cal, stage_calibration, stage_xy, images_ok>>

turn_on ==
  /\ dlg = "eht" /\ ew.on_enabled
  /\ ew' = [ew EXCEPT !.on_enabled = FALSE, !.on_text = "Wait"]
  /\ e_pc' = "on_cmd"
  /\ UNCHANGED <<dlg, queue, error_state, apprVars, motorVars, calVars, e_wait>>

turn_off ==
  /\ dlg = "eht" /\ ew.off_enabled
  /\ ew' = [ew EXCEPT !.off_enabled = FALSE, !.off_text = "Wait"]
  /\ e_pc' = "off_cmd"
  /\ UNCHANGED <<dlg, queue, error_state, apprVars, motorVars, calVars, e_wait>>

\* the dialog has no accept, reject or closeEvent of its own: it closes
e_close ==
  /\ dlg = "eht"
  /\ dlg' = "none"
  /\ UNCHANGED <<queue, error_state, apprVars, motorVars, calVars, ehtVars>>

\* ---- send_on_cmd_and_wait and send_off_cmd_and_wait
\* sem.turn_eht_on() / sem.turn_eht_off(); max_wait_time = 15
eht_send_cmd ==
  /\ e_pc \in {"on_cmd", "off_cmd"}
  /\ e_wait' = MaxWaitTime
  /\ e_pc' = IF e_pc = "on_cmd" THEN "on_wait" ELSE "off_wait"
  /\ UNCHANGED <<dlg, queue, error_state, apprVars, motorVars, calVars, ew>>

\* while not is_eht_on() (is_eht_off()) and max_wait_time > 0: sleep(1)
eht_wait ==
  /\ e_pc \in {"on_wait", "off_wait"}
  /\ \E reached \in BOOLEAN :
       IF ~reached /\ e_wait > 0
         THEN e_wait' = e_wait - 1 /\ UNCHANGED e_pc
         ELSE /\ e_pc' = IF e_pc = "on_wait" THEN "on_text" ELSE "off_text"
              /\ UNCHANGED e_wait
  /\ UNCHANGED <<dlg, queue, error_state, apprVars, motorVars, calVars, ew>>

\* self.pushButton_on.setText('ON') / self.pushButton_off.setText('OFF')
eht_set_text ==
  /\ e_pc \in {"on_text", "off_text"}
  /\ ew' = IF e_pc = "on_text" THEN [ew EXCEPT !.on_text = "ON"]
           ELSE [ew EXCEPT !.off_text = "OFF"]
  /\ e_pc' = "status"
  /\ UNCHANGED <<dlg, queue, error_state, apprVars, motorVars, calVars, e_wait>>

\* self.update_status(), called by the worker
eht_update_status ==
  /\ e_pc = "status"
  /\ \E on \in BOOLEAN :
       ew' = update_status(on) @@ [on_text |-> ew.on_text, off_text |-> ew.off_text]
  /\ e_pc' = "none"
  /\ UNCHANGED <<dlg, queue, error_state, apprVars, motorVars, calVars, e_wait>>

send_cmd_and_wait == eht_send_cmd \/ eht_wait \/ eht_set_text \/ eht_update_status

Init ==
  /\ EhtInit
  /\ dlg = "none"
  /\ queue = <<>>
  /\ error_state = 0
  /\ ApproachInit
  /\ MotorInit
  /\ CalibInit
  /\ spin_cal = [shift |-> 100, px |-> 10]
  /\ stage_calibration = DefaultCalibration
  /\ stage_xy = <<10, 20>>
  /\ images_ok = TRUE

NextApproach ==
  \/ OpenApproachDlg \/ ChangeNumberSlices \/ update_progress \/ start_approach
  \/ abort_approach \/ finish_approach \/ a_closeEvent \/ a_accept
  \/ approach_thread

NextMotor ==
  \/ OpenMotorDlg \/ time_passes \/ m_update_progress \/ start_random_walk
  \/ abort_random_walk \/ test_finished \/ m_closeEvent \/ m_accept
  \/ random_walk_thread

NextCalib ==
  \/ OpenCalibDlg \/ start_calibration_procedure \/ update_log
  \/ process_results \/ calculate_stage_parameters_from_user_input \/ c_accept
  \/ c_reject \/ c_closeEvent
  \/ stage_calibration_acq_thread

NextEht == OpenEhtDlg \/ turn_on \/ turn_off \/ e_close \/ send_cmd_and_wait

\* one specification per dialog (the dialogs are application-modal, so at most
\* one of them is open), and the three together
ApproachSpec == Init /\ [][NextApproach]_vars
MotorSpec == Init /\ [][NextMotor]_vars
CalibSpec == Init /\ [][NextCalib]_vars

\* the worker thread is scheduled and its hardware calls return; the event
\* loop of the presentation thread delivers every queued signal
ApproachFairSpec ==
  /\ ApproachSpec
  /\ WF_vars(approach_thread)
  /\ WF_vars(update_progress)
  /\ WF_vars(finish_approach)

\* the motor test alone: the worker is scheduled, its hardware calls return,
\* time advances and the event loop delivers every queued signal
MotorFairSpec ==
  /\ MotorSpec
  /\ WF_vars(random_walk_thread)
  /\ WF_vars(time_passes)
  /\ WF_vars(m_update_progress)
  /\ WF_vars(test_finished)

\* the calibration dialog alone, under the same scheduling
CalibFairSpec ==
  /\ CalibSpec
  /\ WF_vars(stage_calibration_acq_thread)
  /\ WF_vars(update_log)
  /\ WF_vars(process_results)

\* the two dialogs whose workers run a loop of hardware commands, under the
\* same scheduling
WorkersFairSpec ==
  /\ Init /\ [][NextApproach \/ NextMotor]_vars
  /\ WF_vars(approach_thread)
  /\ WF_vars(update_progress)
  /\ WF_vars(finish_approach)
  /\ WF_vars(random_walk_thread)
  /\ WF_vars(time_passes)
  /\ WF_vars(m_update_progress)
  /\ WF_vars(test_finished)

Next == NextApproach \/ NextMotor \/ NextCalib \/ NextEht
Spec == Init /\ [][Next]_vars
\* ====================================================== claims, C1 .. C10

\* the completion notification of the current approach run has just been posted
ApproachPosted == a_pc = "none" /\ ah.finishes = 1 /\ ah.handled = 0

\* an approach run is in flight: its worker is alive or finish_approach has
\* not yet handled its completion notification
ApproachInFlight ==
  a_pc # "none" \/ \E i \in 1..Len(queue) : queue[i] = "a_finish"

MotorInFlight ==
  m_pc # "none" \/ \E i \in 1..Len(queue) : queue[i] = "m_finish"

\* C1: when the register reads 206 after the Z move of cycle k, the run ends
\* with slice_counter = k-1 and no cut in cycle k, the fault is recorded as a
\* Z mismatch (z_mismatch and aborted true) and finish_approach shows the
\* Z-position-mismatch message.
C1_Mismatch206InCycle ==
  ah.fault206_cycle > 0 =>
    /\ ApproachPosted =>
         /\ slice_counter = ah.fault206_cycle - 1
         /\ ah.cuts = ah.fault206_cycle - 1
         /\ aborted /\ z_mismatch
    /\ ah.handled = 1 => a_report.kind = "z_mismatch"

\* C2: an abort request issued while the abort control is enabled is never
\* lost: no loop-condition check after it starts a new cycle, and the run is
\* reported as aborted.
C2_AbortNeverLost ==
  ah.abort_req =>
    /\ ~ah.cycle_after_abort
    /\ ah.handled = 1 => a_report.kind # "finished"

\* C3: the approach dialog is never closed while an approach run is in flight
\* (from start_approach until finish_approach has completed).
C3_NoCloseWhileApproachInFlight == ApproachInFlight => dlg = "approach"

\* C4: the motor test dialog is never closed while a motor test run is in
\* flight (from the start of the worker until test_finished has completed).
C4_NoCloseWhileMotorTestInFlight == MotorInFlight => dlg = "motor"

\* the shift vectors the last calculation handler worked on have a zero
\* primary component (x-shift dx = 0 or y-shift dy = 0)
DegenerateInput ==
  /\ ch.src # "none"
  /\ ch.msg # "exception_warning"
  /\ IF ch.src = "auto"
       THEN x_shift_vector[1] = 0 \/ y_shift_vector[2] = 0
       ELSE spin_pts["x1x"] = spin_pts["x2x"] \/ spin_pts["y1y"] = spin_pts["y2y"]

\* C5: a degenerate shift (from the registration or from the point pairs) is
\* rejected before computation: no division by zero is attempted, nothing is
\* proposed, the four dialog values stay as they were and the dialog is not
\* busy afterwards.
C5_DegenerateInputRejected ==
  (DegenerateInput /\ c_pc = "none" /\ queue = <<>>) =>
    /\ ~ch.divided_by_zero
    /\ ch.msg # "proposal"
    /\ ~ch.params_changed
    /\ ~busy

\* C6: every calibration run ends: once the worker is gone and every posted
\* notification has been handled, exactly one completion notification was
\* posted for the run and busy is false again.
C6_CalibrationRunEnds ==
  (c_pc = "none" /\ queue = <<>>) =>
    /\ ~busy
    /\ ch.cmds # <<>> => ch.finishes = 1

\* C7: with a valid initial Z read, no hardware fault and no abort request, the
\* worker performs exactly N move-then-cut cycles, slice_counter is N and
\* aborted is false when the completion notification is posted, and the
\* report is the full-completion one.
C7_FaultFreeRunCompletes ==
  (ah.read_ok /\ ~ah.hw_fault /\ ~ah.abort_req) =>
    /\ ApproachPosted =>
         /\ slice_counter = ah.target
         /\ ah.moves = ah.target
         /\ ah.cuts = ah.target
         /\ ~aborted
    /\ ah.handled = 1 =>
         /\ a_report.kind = "finished"
         /\ a_report.slices = ah.target

C7_Witness ==
  /\ ah.handled = 1 /\ ah.read_ok /\ ~ah.hw_fault /\ ~ah.abort_req
  /\ ah.target = MaxSlices
  /\ ah.cuts = MaxSlices
  /\ a_report.kind = "finished"

\* C8: once a Z move or a cut of a cycle leaves the register non-zero, no
\* further Z move or cut is commanded in the run, aborted is true and the
\* register is reset when the loop is left, and slice_counter at the
\* completion notification is the number of cuts that finished without error.
C8_FaultHaltsKeepsProgress ==
  /\ ~ah.cmd_after_fault
  /\ (ah.fault_seen /\ a_pc = "emit_finish") => (aborted /\ error_state = 0)
  /\ (ah.fault_seen /\ ApproachPosted) =>
       (aborted /\ error_state = 0 /\ slice_counter = ah.ok_cuts)

C8_Witness ==
  ah.fault_seen /\ ApproachPosted /\ slice_counter = 1 /\ ah.cuts = 2

\* C9: an abort request made while the Z move or the cut of cycle k is
\* executing does not interrupt that cycle: no Z move or cut beyond cycle k
\* is commanded, and without a fault the cut of cycle k is made and counted.
C9_AbortDoesNotInterruptCycle ==
  ah.abort_pc \in {"move_wait", "cut_wait"} =>
    /\ ah.moves <= ah.abort_cycle
    /\ ah.cuts <= ah.abort_cycle
    /\ (ApproachPosted /\ ~ah.fault_seen) =>
         (ah.cuts = ah.abort_cycle /\ slice_counter = ah.abort_cycle)

C9_Witness ==
  /\ ah.abort_pc = "move_wait" /\ ah.abort_cycle = 1
  /\ ah.target = MaxSlices
  /\ ApproachPosted /\ ~ah.fault_seen /\ slice_counter = 1

\* a step of finish_approach
FinishApproachStep == ah'.handled = ah.handled + 1

\* C10: every started run reaches finish_approach, which commands knife-clear
\* exactly once per run; when knife-clear left the register non-zero a warning
\* is shown, the register is zero afterwards, and the outcome report is the
\* one the flags aborted and z_mismatch select when the handler starts,
\* whatever knife-clear did.
C10_CleanupNeverMasksOutcome ==
  /\ (a_pc # "none") ~> (ah.handled = 1 /\ ah.clears = 1)
  /\ [](/\ ah.clears = ah.handled /\ ah.handled <= ah.finishes /\ ah.finishes <= 1
        /\ ah.handled = 1 => (/\ ah.clear_fault => a_report.clear_warning
                              /\ a_pc = "none" => error_state = 0))
  /\ [][FinishApproachStep =>
          a_report'.kind = (IF ~aborted THEN "finished"
                            ELSE IF z_mismatch THEN "z_mismatch" ELSE "aborted")]_vars

C10_Witness ==
  ah.handled = 1 /\ ah.clear_fault /\ a_report.clear_warning
  /\ a_report.kind = "finished"

\* ====================================================== claims, C11 .. C20

\* the run met a Z position mismatch: at the initial read (z_mismatch) or
\* after the Z move of a cycle
ZMismatchFault == z_mismatch \/ ah.fault206_cycle > 0

\* C11: the completion report of a run is the full-completion report with
\* depth = target slices x thickness when all target slices were cut, the
\* partial-abort report with the slices cut so far when the operator aborted
\* before all target slices were cut, and the Z-mismatch warning without a
\* depth figure when the fault is a Z mismatch.
C11_ThreeOutcomeReport ==
  ah.handled = 1 =>
    /\ ZMismatchFault => (a_report.kind = "z_mismatch" /\ a_report.depth = 0)
    /\ (~ZMismatchFault /\ ah.ok_cuts = ah.target) =>
         (a_report.kind = "finished" /\ a_report.depth = ah.target * thickness)
    /\ (~ZMismatchFault /\ ah.abort_req /\ ah.ok_cuts < ah.target) =>
         /\ a_report.kind = "aborted"
         /\ a_report.slices = ah.ok_cuts
         /\ a_report.depth = ah.ok_cuts * thickness

\* the signal sig is posted and not yet handled
Pending(sig) == \E i \in 1..Len(queue) : queue[i] = sig

\* C12: for each of the three run types, while a run is active (its worker is
\* alive or its completion signal is not yet handled) the start control of its
\* dialog is disabled, so no second worker of the dialog can be started.
C12_OneRunAtATime ==
  /\ (a_pc # "none" \/ Pending("a_finish")) => ~aw.start
  /\ (m_pc # "none" \/ Pending("m_finish")) => ~mw.start
  /\ (c_pc # "none" \/ Pending("c_finish")) => ~cw.start

C12_Witness ==
  /\ c_pc = "register" /\ ~cw.start /\ cw.start_text = "Busy"
  /\ stage_calibration # DefaultCalibration

\* C13: every started approach worker and every started motor-test worker
\* posts its completion signal exactly once, when it has ended and so after
\* its last hardware command, and finish_approach / test_finished runs exactly
\* once per run, whatever progress signals are pending.
C13_OneFinalNotification ==
  /\ [](/\ ah.finishes <= 1 /\ ah.handled <= ah.finishes
        /\ mh.finishes <= 1 /\ mh.handled <= mh.finishes
        /\ ah.finishes = 1 => a_pc = "none"
        /\ mh.finishes = 1 => m_pc = "none")
  /\ [][(ah.finishes = 1 /\ ah'.finishes = 1) =>
          (ah'.moves = ah.moves /\ ah'.cuts = ah.cuts /\ ah'.nears = ah.nears)]_vars
  /\ [][(mh.finishes = 1 /\ mh'.finishes = 1) =>
          (mh'.xy_moves = mh.xy_moves /\ mh'.z_moves = mh.z_moves)]_vars
  /\ (a_pc # "none") ~> (ah.finishes = 1 /\ ah.handled = 1)
  /\ (m_pc # "none") ~> (mh.finishes = 1 /\ mh.handled = 1)

C13_Witness ==
  /\ m_pc = "none" /\ mh.finishes = 1 /\ mh.handled = 0
  /\ Len(queue) >= 3 /\ mh.xy_moves = MaxTests

\* C14: an abort request of the motor test issued while the abort control is
\* enabled makes the worker leave its loop at its next loop-condition check
\* (no iteration is started after the request was seen by a check), and the
\* run is reported as aborted.
C14_MotorAbortAtNextCheck ==
  mh.abort_req =>
    /\ ~mh.iter_after_abort
    /\ mh.handled = 1 => m_report.kind = "aborted"

\* a step of MotorTestDlg.update_progress
MotorProgressStep == m_update_progress

\* C15: once the duration has elapsed, the next progress signal handled sets
\* test_in_progress to false; after that the worker starts no new iteration;
\* test_finished commands exactly one move to start_z with safe mode off; and
\* under fair scheduling every started motor test reaches that move and the
\* dialog is idle again (start enabled, abort disabled, not in progress).
C15_MotorTestTerminates ==
  /\ [][(MotorProgressStep /\ start_time = "expired") => ~test_in_progress']_vars
  /\ [](~mh.iter_after_timeout)
  /\ [](mh.restores = mh.handled /\ mh.handled <= 1)
  /\ [][mh'.handled = mh.handled + 1 =>
          (mh'.restore_z = start_z /\ ~mh'.restore_safe_mode)]_vars
  /\ (m_pc # "none") ~>
       (/\ m_pc = "none" /\ mh.handled = 1 /\ mh.restores = 1
        /\ ~test_in_progress /\ mw.start /\ ~mw.abort /\ mw.buttonBox)

C15_Witness ==
  /\ mh.handled = 1 /\ mh.timed_out /\ ~mh.abort_req
  /\ number_tests = MaxTests /\ m_report.kind = "complete"
  /\ mh.restore_z = <<50>>

\* |x| <= 600, |y| <= 600 and 0 <= z <= 600
InWalkRange(x, y, z) ==
  Abs(x) <= WalkLimit /\ Abs(y) <= WalkLimit /\ 0 <= z /\ z <= WalkLimit

\* C16: every position the random walk logs or sends to the hardware has
\* |x| <= 600, |y| <= 600 and 0 <= z <= 600, and the position sent is the one
\* of the iteration's log line.
C16_WalkPositionBounds ==
  /\ \A i \in 1..Len(m_log) :
       m_log[i][1] = "POS" => InWalkRange(m_log[i][2], m_log[i][3], m_log[i][4])
  /\ m_pc \in {"xy_wait", "xy_check", "z_wait", "z_check"} =>
       /\ InWalkRange(current_x, current_y, current_z)
       /\ mh.sent_xy = <<current_x, current_y>>
       /\ m_pc \in {"z_wait", "z_check"} => mh.sent_z = <<current_z>>

\* the lines of the log with one of the given tags
LogLines(tags) == {i \in 1..Len(m_log) : m_log[i][1] \in tags}

MotorFaultStep ==
  m_pc \in {"xy_check", "z_check"} /\ fault_detected /\ m_pc' # m_pc

\* C18: a fault of an XY or Z move is counted, logged with its cause text and
\* the register reset, and the worker goes on to the end of the iteration and
\* the next loop check (the loop is left only when test_in_progress is false);
\* the register is zero when a later iteration commands its first move; when
\* the XY move of an iteration faults, its Z move is not commanded.
C18_MotorFaultRecoverable ==
  /\ [][MotorFaultStep =>
          /\ m_pc' = "count"
          /\ number_errors' = number_errors + 1
          /\ error_state' = 0
          /\ Len(m_log') = Len(m_log) + 1
          /\ m_log'[Len(m_log')] \in {<<"XY_ERROR", "error_info">>,
                                        <<"Z_ERROR", "error_info">>}]_vars
  /\ [][(m_pc = "count" /\ m_pc' # m_pc) => m_pc' = "loop"]_vars
  /\ [][(m_pc = "loop" /\ m_pc' = "summary") => ~test_in_progress]_vars
  /\ []((m_pc \in {"loop", "step", "xy_wait"} /\ number_tests > 0) => error_state = 0)
  /\ [](mh.z_moves = Cardinality(LogLines({"OK", "Z_ERROR"}))
                      + (IF m_pc \in {"z_wait", "z_check"} THEN 1 ELSE 0)
         \/ m_pc \in {"none", "set_in_progress", "init_run"})

C18_Witness ==
  /\ m_pc = "z_wait" /\ number_tests = 1 /\ test_in_progress
  /\ m_log[2] = <<"XY_ERROR", "error_info">>
  /\ mh.z_moves = 1 /\ mh.xy_moves = 2 /\ number_errors = 1

\* a step that calls cs.save_stage_calibration
SaveStep == ch'.saves = ch.saves + 1

\* C19: the persisted calibration is written only by accept of the
\* calibration dialog, with the dialog not busy, and what is written are the
\* four values of the dialog; computing parameters, answering the proposal,
\* reject and closeEvent leave it as it was.
C19_PersistOnlyOnAccept ==
  /\ [][stage_calibration' # stage_calibration => SaveStep]_vars
  /\ [][SaveStep =>
          /\ dlg = "calib" /\ ~busy /\ c_pc = "none"
          /\ stage_calibration' = params
          /\ dlg' = "none"]_vars

C19_Witness ==
  /\ dlg = "none" /\ ch.msg = "proposal" /\ ch.params_changed /\ ch.saves = 0
  /\ params # stage_calibration
  /\ stage_calibration # DefaultCalibration

\* C20: while a calibration run is active (the worker is alive or its
\* completion signal is not yet handled) the dialog is busy and stays open
\* whatever accept, reject and closeEvent are tried, nothing is persisted, no
\* motor speeds are set and the manual-calculation control is disabled.
C20_CalibrationLockedWhileBusy ==
  (c_pc # "none" \/ Pending("c_finish")) =>
    /\ busy /\ dlg = "calib"
    /\ ~cw.calc /\ ~cw.start
    /\ ch.saves = 0 /\ ch.speeds_set = 0

C20_Witness ==
  /\ Pending("c_finish") /\ c_pc = "none" /\ ch.refused
  /\ busy /\ dlg = "calib" /\ ~cw.calc

\* ====================================================== claims, C21 .. C30

\* the commands of one calibration run, from the position read at its start
AcquisitionOrder ==
  <<Cmd("get_xy", 0, 0),
    Cmd("start.tif", 0, 0),
    Cmd("move_to_xy", c_start[1] + spin_cal.shift, c_start[2]),
    Cmd("shift_x.tif", 0, 0),
    Cmd("move_to_xy", c_start[1], c_start[2] + spin_cal.shift),
    Cmd("shift_y.tif", 0, 0),
    Cmd("move_to_xy", c_start[1], c_start[2])>>

\* the worker is past the restoring move, or its run is over
PastAcquisition ==
  \/ c_pc \in {"emit_update", "imread", "register", "emit_finish"}
  \/ ch.finishes > 0 \/ ch.died

\* C21: the commands the calibration worker has issued are always a prefix of
\* read position, capture, move to (start_x + shift, start_y), capture, move
\* to (start_x, start_y + shift), capture, move to (start_x, start_y); the
\* whole sequence, the restoring move included, has been issued before the
\* images are read and registered and before the completion signal is posted.
C21_AcquisitionOrder ==
  /\ Len(ch.cmds) <= Len(AcquisitionOrder)
  /\ ch.cmds = SubSeq(AcquisitionOrder, 1, Len(ch.cmds))
  /\ PastAcquisition => (ch.cmds = AcquisitionOrder /\ stage_xy = c_start)
  /\ (c_pc \in {"get_xy", "acq_start", "move_x", "acq_x", "move_y", "acq_y", "move_back"})
       => (ch.finishes = 0 /\ ~Pending("c_finish") /\ ~Pending("c_update"))

C21_Witness ==
  /\ ch.finishes = 1 /\ Pending("c_finish")
  /\ ch.cmds = AcquisitionOrder
  /\ ch.cmds[5] # Cmd("move_to_xy", ch.cmds[3].x, ch.cmds[3].y + spin_cal.shift)

\* the registration has raised in the run that is in flight
RegistrationFailed ==
  calc_exception = "Exception" /\ (c_pc = "emit_finish" \/ Pending("c_finish"))

\* C22: when the registration raises, the worker records the exception
\* without storing a shift vector and goes on to post the completion signal;
\* until the signal is handled the shift vectors and the four calibration
\* values stay as they were; the handler warns with the cause, proposes
\* nothing, clears busy and enables the start and calculate controls.
C22_RegistrationFailureRejected ==
  /\ [][(c_pc = "register" /\ calc_exception' = "Exception") =>
          /\ c_pc' = "emit_finish"
          /\ x_shift_vector' = x_shift_vector
          /\ y_shift_vector' = y_shift_vector
          /\ params' = params]_vars
  /\ [][RegistrationFailed =>
          /\ x_shift_vector' = x_shift_vector
          /\ y_shift_vector' = y_shift_vector
          /\ params' = params
          /\ stage_calibration' = stage_calibration
          /\ dlg' = "calib"]_vars
  /\ [][(RegistrationFailed /\ ch'.handled = ch.handled + 1) =>
          /\ ch'.msg = "exception_warning" /\ ~ch'.params_changed
          /\ ~busy' /\ cw'.start /\ cw'.calc /\ cw'.start_text = "Start"]_vars
  /\ RegistrationFailed ~> (ch.handled = 1 /\ ch.msg = "exception_warning" /\ ~busy)

C22_Witness ==
  /\ calc_exception = "Exception" /\ ch.handled = 1 /\ ch.msg = "exception_warning"
  /\ ~busy /\ cw.start /\ cw.calc /\ dlg = "calib" /\ c_pc = "none"

\* a step that issues a hardware command: a stage move, a knife move, a cut,
\* a frame acquisition or a position read
HardwareCommandStep ==
  \/ ah'.moves = ah.moves + 1 \/ ah'.cuts = ah.cuts + 1
  \/ ah'.nears = ah.nears + 1 \/ ah'.clears = ah.clears + 1
  \/ mh'.xy_moves = mh.xy_moves + 1 \/ mh'.z_moves = mh.z_moves + 1
  \/ mh'.restores = mh.restores + 1
  \/ (dlg = "motor" /\ start_z' # start_z)
  \/ Len(ch'.cmds) = Len(ch.cmds) + 1

\* a step of one of the worker threads
WorkerStep ==
  \/ (a_pc # "none" /\ a_pc' # a_pc)
  \/ (m_pc # "none" /\ m_pc' # m_pc)
  \/ (c_pc # "none" /\ c_pc' # c_pc)
  \/ (e_pc # "none" /\ (e_pc' # e_pc \/ e_wait' # e_wait))

\* C23: every hardware command of the approach, motor test and calibration
\* dialogs is issued by a step of a worker thread; the start and completion
\* handlers of the presentation thread issue none.
C23_NoHardwareOnPresentationThread ==
  [][HardwareCommandStep => WorkerStep]_vars

\* a step that changes the text or the enabled state of a widget, a label or
\* a progress bar
WidgetWriteStep == aw' # aw \/ mw' # mw \/ cw' # cw \/ ew' # ew

\* C24: widget state is changed only by steps of the presentation thread (a
\* handler of an operator action or a slot run for a posted signal), never by
\* a step of a worker thread.
C24_WorkersNeverTouchWidgets ==
  [][WidgetWriteStep => ~WorkerStep]_vars

\* a step of an approach or motor test run that issues a hardware command,
\* the two reads of the Z position at the start of an approach included
RegisterGuardedStep ==
  \/ (a_pc \in {"read_z", "retry_z"} /\ a_pc' # a_pc)
  \/ ah'.nears = ah.nears + 1 \/ ah'.moves = ah.moves + 1
  \/ ah'.cuts = ah.cuts + 1 \/ ah'.clears = ah.clears + 1
  \/ mh'.xy_moves = mh.xy_moves + 1 \/ mh'.z_moves = mh.z_moves + 1
  \/ mh'.restores = mh.restores + 1

\* C25: in approach and motor test runs no hardware command is issued while
\* the error register holds a non-zero code, and the register is zero when
\* finish_approach and test_finished return.
C25_ErrorRegisterProtocol ==
  /\ [][RegisterGuardedStep => error_state = 0]_vars
  /\ [][(ah'.handled = ah.handled + 1 \/ mh'.handled = mh.handled + 1)
          => error_state' = 0]_vars

\* C26: accept of the motor test dialog never fails, and the motor test
\* dialog is closed only while its own test_in_progress flag is false.
C26_MotorAcceptOwnFlag ==
  /\ [](~mh.accept_raised)
  /\ [][(dlg = "motor" /\ dlg' = "none") => ~test_in_progress]_vars

\* the worker is in the approach loop or has left it
InOrPastLoop ==
  a_pc \in {"loop", "move_z", "move_wait", "move_check", "cut", "cut_wait", "cut_check",
            "emit_finish"}

\* C27: with z0 the Z position read at the start of the run, the target of
\* the k-th Z move is z0 + k * thickness (both in nm); each move advances the
\* previous target by one thickness; the cycle that cuts slice k has commanded
\* exactly k moves and k - 1 cuts before its cut, and a cycle whose move has
\* faulted leaves the advanced target behind.
C27_ApproachZTargets ==
  /\ [](InOrPastLoop /\ ah.read_ok => z_position = <<ah.z0[1] + ah.moves * thickness>>)
  /\ [](InOrPastLoop => (ah.cuts <= ah.moves /\ ah.moves <= ah.cuts + 1))
  /\ [](a_pc = "cut" => (ah.moves = slice_counter + 1 /\ ah.cuts = slice_counter))
  /\ [][ah'.moves = ah.moves + 1 =>
          /\ ah.read_ok /\ ah.moves = ah.cuts
          /\ z_position' = <<z_position[1] + thickness>>]_vars
  /\ [][(InOrPastLoop /\ a_pc # "move_z" /\ a_pc' # "none"
           /\ a_pc' # "set_in_progress")
          => z_position' = z_position]_vars

C27_Witness ==
  /\ a_pc = "emit_finish" /\ ah.moves = 2 /\ ah.cuts = 1 /\ slice_counter = 1
  /\ z_position = <<ah.z0[1] + 2 * thickness>>

\* the worker is past the reads of the Z position, in the current run
PastReads ==
  \/ a_pc \in {"check_206", "near_knife", "near_check"}
  \/ InOrPastLoop
  \/ ah.finishes > 0

\* the worker is past the test of the register for 206, in the current run
PastCheck206 == (PastReads /\ a_pc # "check_206")

\* the run's preamble has failed: both reads of Z, the 206 test, or knife-near
ReadFailedTwice == PastReads /\ ~ah.read_ok
Mismatch206 == PastCheck206 /\ z_mismatch
PreambleFailed == ReadFailedTwice \/ Mismatch206 \/ ah.near_fault

\* C28: the knife is moved near at most once per run, before any Z move or
\* cut; after two failed reads of Z or a 206 found after the reads, no
\* knife-near, Z move or cut is commanded; after a fault of knife-near no Z
\* move or cut is commanded; in each case the run has aborted set and
\* slice_counter 0, and the completion signal is posted.
C28_PreambleGatesLoop ==
  /\ [](ah.nears <= 1)
  /\ []((ah.moves > 0 \/ ah.cuts > 0) => (ah.nears = 1 /\ ~PreambleFailed))
  /\ []((ReadFailedTwice \/ Mismatch206) => ah.nears = 0)
  /\ [](PreambleFailed => (aborted /\ slice_counter = 0 /\ ah.finishes <= 1))
  /\ (PreambleFailed ~> (ah.finishes = 1 /\ aborted /\ slice_counter = 0))

C28_Witness ==
  /\ ah.near_fault /\ ah.nears = 1 /\ ah.moves = 0 /\ ah.cuts = 0
  /\ ah.finishes = 1 /\ Pending("a_finish") /\ aborted /\ slice_counter = 0

\* the bounds of slice_counter and of the cuts of the run in flight, and the
\* only way slice_counter grows
CounterInvariants ==
  /\ [](0 <= slice_counter /\ slice_counter <= max_slices)
  /\ [](ah.handled = 0 => (ah.cuts <= max_slices /\ ah.cuts <= slice_counter + 1))
  /\ [][slice_counter' > slice_counter =>
          /\ slice_counter' = slice_counter + 1
          /\ a_pc = "cut_check" /\ error_state = 0
          /\ ah.cuts = slice_counter + 1]_vars

StartRejected == m_report.kind = "no_z"

\* C30: when the Z position read by start_random_walk is None, the step
\* starts no worker, shows the warning and leaves the widgets and
\* test_in_progress as they were; afterwards, until the next start, no worker
\* is alive, nothing is posted, the register is zero, test_in_progress is
\* false, the start control, the button box and the duration field are
\* enabled and the abort control is disabled, so that start_random_walk can
\* be run again.
C30_MotorStartRejectedOnNullZ ==
  /\ [][(StartRejected' /\ ~StartRejected) =>
          /\ start_z' = NoneZ
          /\ m_pc = "none" /\ m_pc' = "none"
          /\ mw' = mw /\ mh' = mh /\ queue' = queue
          /\ test_in_progress' = test_in_progress]_vars
  /\ [](StartRejected =>
          /\ m_pc = "none" /\ ~Pending("m_finish") /\ ~Pending("m_progress")
          /\ error_state = 0
          /\ ~test_in_progress
          /\ mw.start /\ ~mw.abort /\ mw.buttonBox /\ mw.duration
          /\ (dlg = "motor" => ENABLED start_random_walk))

C30_Witness ==
  /\ StartRejected /\ dlg = "motor" /\ start_z = NoneZ
  /\ mh.handled = 1 /\ mh.restores = 1
  /\ error_state = 0 /\ mw.start /\ ~test_in_progress

====
